---- MODULE Spec2Model ----
(***************************************************************************)
(* Intrusive Galerkin projection of  du/dt = -a u,  u(0) = I  onto a       *)
(* polynomial chaos basis, as carried out cell by cell in                  *)
(* tutorial/intrusive_galerkin.ipynb.                                      *)
(*                                                                         *)
(* Numbers are exact: a value is  n * 10^e / d  with d > 0 coprime to 10,  *)
(* gcd(n, d) = 1 and 10 not dividing n (zero is 0 * 10^0 / 1), so equal    *)
(* numbers are equal records and "= 0" means exactly zero.                 *)
(***************************************************************************)
EXTENDS Integers, Sequences, FiniteSets, TLC

(***************************************************************************)
(* Exact arithmetic                                                        *)
(***************************************************************************)
Abs(x) == IF x < 0 THEN -x ELSE x

Min(x, y) == IF x < y THEN x ELSE y

Max(x, y) == IF x < y THEN y ELSE x

RECURSIVE GCD(_, _)
GCD(x, y) == IF y = 0 THEN x ELSE GCD(y, x % y)

RECURSIVE Pow10(_)
Pow10(k) == IF k = 0 THEN 1 ELSE 10 * Pow10(k - 1)

QZero == [n |-> 0, d |-> 1, e |-> 0]

RECURSIVE StripNum(_, _, _)
StripNum(n, d, e) ==
    IF n % 10 = 0 THEN StripNum(n \div 10, d, e + 1)
    ELSE [n |-> n, d |-> d, e |-> e]

RECURSIVE StripDen(_, _, _)
StripDen(n, d, e) ==
    IF d % 2 = 0 THEN StripDen(n * 5, d \div 2, e - 1)
    ELSE IF d % 5 = 0 THEN StripDen(n * 2, d \div 5, e - 1)
    ELSE StripNum(n, d, e)

\* n * 10^e / d (d > 0) in normal form
QNorm(n, d, e) ==
    IF n = 0 THEN QZero
    ELSE LET g == GCD(Abs(n), d) IN StripDen(n \div g, d \div g, e)

QInt(k) == QNorm(k, 1, 0)

QOne == QInt(1)

QNeg(x) == [n |-> -x.n, d |-> x.d, e |-> x.e]

QMul(x, y) ==
    IF x.n = 0 \/ y.n = 0 THEN QZero
    ELSE LET g1 == GCD(Abs(x.n), y.d)
             g2 == GCD(Abs(y.n), x.d)
         IN  QNorm((x.n \div g1) * (y.n \div g2),
                   (x.d \div g2) * (y.d \div g1), x.e + y.e)

QAdd(x, y) ==
    IF x.n = 0 THEN y
    ELSE IF y.n = 0 THEN x
    ELSE LET e  == Min(x.e, y.e)
             nx == x.n * Pow10(x.e - e)
             ny == y.n * Pow10(y.e - e)
             l  == (x.d \div GCD(x.d, y.d)) * y.d
         IN  QNorm(nx * (l \div x.d) + ny * (l \div y.d), l, e)

QSub(x, y) == QAdd(x, QNeg(y))

\* 1 / x, x not zero
QInv(x) == QNorm((IF x.n > 0 THEN 1 ELSE -1) * x.d, Abs(x.n), -x.e)

QDiv(x, y) == QMul(x, QInv(y))

QPos(x) == x.n > 0

RECURSIVE QPow(_, _)
QPow(x, k) == IF k = 0 THEN QOne ELSE QMul(QPow(x, k - 1), x)

\* sum of the entries of a sequence of numbers, left to right
RECURSIVE QSumTo(_, _)
QSumTo(s, k) == IF k = 0 THEN QZero ELSE QAdd(QSumTo(s, k - 1), s[k])

QSum(s) == QSumTo(s, Len(s))

(***************************************************************************)
(* Polynomials in q0 (the variable of a) and q1 (the variable of I):       *)
(* c[i + 1][j + 1] is the coefficient of q0^i q1^j, i in 0..da,            *)
(* j in 0..dI.  A table is closed with \o << >> so that it is held as a    *)
(* tuple of its entries.                                                   *)
(***************************************************************************)
\* coefficient of q0^i q1^j, zero beyond the stored degrees
PCoef(p, i, j) == IF i <= p.da /\ j <= p.dI THEN p.c[i + 1][j + 1] ELSE QZero

PConst(x) == [da |-> 0, dI |-> 0, c |-> << <<x>> >>]

PAdd(p, q) ==
    [da |-> Max(p.da, q.da), dI |-> Max(p.dI, q.dI),
     c  |-> [i \in 1..(Max(p.da, q.da) + 1) |->
                [j \in 1..(Max(p.dI, q.dI) + 1) |->
                    QAdd(PCoef(p, i - 1, j - 1), PCoef(q, i - 1, j - 1))] \o << >>]
            \o << >>]

PScale(x, p) ==
    [da |-> p.da, dI |-> p.dI,
     c  |-> [i \in 1..(p.da + 1) |->
                [j \in 1..(p.dI + 1) |-> QMul(x, PCoef(p, i - 1, j - 1))] \o << >>]
            \o << >>]

PSub(p, q) == PAdd(p, PScale(QInt(-1), q))

\* coefficient of q0^i q1^j in p * q
PMulCoef(p, q, i, j) ==
    LET ilo == Max(0, i - q.da)
        ihi == Min(i, p.da)
        jlo == Max(0, j - q.dI)
        jhi == Min(j, p.dI)
        nj  == jhi - jlo + 1
        cnt == (ihi - ilo + 1) * nj
    IN  QSum([k \in 1..cnt |->
              LET i1 == ilo + ((k - 1) \div nj)
                  j1 == jlo + ((k - 1) % nj)
              IN  QMul(PCoef(p, i1, j1), PCoef(q, i - i1, j - j1))])

PMul(p, q) ==
    [da |-> p.da + q.da, dI |-> p.dI + q.dI,
     c  |-> [i \in 1..(p.da + q.da + 1) |->
                [j \in 1..(p.dI + q.dI + 1) |-> PMulCoef(p, q, i - 1, j - 1)] \o << >>]
            \o << >>]

\* the same polynomial, whatever degrees are stored
PEq(p, q) ==
    \A i \in 0..Max(p.da, q.da) : \A j \in 0..Max(p.dI, q.dI) :
        PCoef(p, i, j) = PCoef(q, i, j)

\* sum of a sequence of polynomials, left to right
RECURSIVE PSumTo(_, _)
PSumTo(s, k) == IF k = 0 THEN PConst(QZero) ELSE PAdd(PSumTo(s, k - 1), s[k])

PSum(s) == PSumTo(s, Len(s))

(***************************************************************************)
(* Distributions: Uniform(lower, upper) marginals and their joint J        *)
(***************************************************************************)
Uniform(lower, upper) == [lower |-> lower, upper |-> upper]

J(da, dI) == <<da, dI>>

\* raw moment E[x^k] of one marginal; with lower = upper the marginal is the
\* law of a constant
Mom(D, k) ==
    IF D.upper = D.lower THEN QPow(D.lower, k)
    ELSE QDiv(QSub(QPow(D.upper, k + 1), QPow(D.lower, k + 1)),
              QMul(QInt(k + 1), QSub(D.upper, D.lower)))

\* expectation of a polynomial under a joint distribution of independent
\* marginals: the coefficients against the raw moments
E(poly, dist) ==
    LET nj  == poly.dI + 1
        cnt == (poly.da + 1) * nj
    IN  QSum([k \in 1..cnt |->
              LET i == (k - 1) \div nj
                  j == (k - 1) % nj
              IN  IF PCoef(poly, i, j).n = 0 THEN QZero
                  ELSE QMul(PCoef(poly, i, j),
                            QMul(Mom(dist[1], i), Mom(dist[2], j)))])

\* variance of a polynomial: E[(poly - E[poly])^2]
Var(poly, dist) ==
    LET centred == PSub(poly, PConst(E(poly, dist)))
    IN  E(PMul(centred, centred), dist)

(***************************************************************************)
(* chaospy.variable(2): the coordinate polynomials q0 and q1               *)
(***************************************************************************)
variable(axis) ==
    IF axis = 1
    THEN [da |-> 1, dI |-> 0, c |-> << <<QZero>>, <<QOne>> >>]
    ELSE [da |-> 0, dI |-> 1, c |-> << <<QZero, QOne>> >>]

(***************************************************************************)
(* Univariate Recurrence Builder (Stieltjes): entry k+1 of the result      *)
(* holds Phi_k, alpha_k = E[x Phi_k^2] / E[Phi_k^2],                       *)
(* beta_k = E[Phi_k^2] / E[Phi_{k-1}^2] (beta_0 = 1), sq = E[Phi_k^2] and  *)
(* norm = beta_0 * ... * beta_k, with                                      *)
(* Phi_{k+1} = (x - alpha_k) Phi_k - beta_k Phi_{k-1}, Phi_{-1} = 0,       *)
(* Phi_0 = 1.  The builder stops at the first beta_k that is not positive: *)
(* that entry is the last one and carries no alpha_k.                      *)
(***************************************************************************)
\* the builder without the centring term: alpha_k taken as 0
RecurrenceEntryUncentred(phi, prevSq, prevNorm, first, axis, dist) ==
    LET sq   == E(PMul(phi, phi), dist)
        beta == IF first THEN QOne ELSE QDiv(sq, prevSq)
    IN  [phi   |-> phi,
         alpha |-> QZero,
         beta  |-> beta,
         sq    |-> sq,
         norm  |-> IF first THEN QOne ELSE QMul(prevNorm, beta)]

RecurrenceEntry(phi, prevSq, prevNorm, first, axis, dist) ==
    LET phi2 == PMul(phi, phi)
        sq   == E(phi2, dist)
        beta == IF first THEN QOne ELSE QDiv(sq, prevSq)
    IN  [phi   |-> phi,
         alpha |-> IF QPos(beta) THEN QDiv(E(PMul(variable(axis), phi2), dist), sq)
                   ELSE QZero,
         beta  |-> beta,
         sq    |-> sq,
         norm  |-> IF first THEN QOne ELSE QMul(prevNorm, beta)]

RECURSIVE Recurrence(_, _, _)
Recurrence(dist, axis, n) ==
    IF n <= 0
    THEN << RecurrenceEntry(PConst(QOne), QOne, QOne, TRUE, axis, dist) >>
    ELSE LET prev   == Recurrence(dist, axis, n - 1)
             last   == prev[Len(prev)]
             before == IF Len(prev) >= 2 THEN prev[Len(prev) - 1].phi
                       ELSE PConst(QZero)
             phi    == PSub(PMul(PSub(variable(axis), PConst(last.alpha)), last.phi),
                            PScale(last.beta, before))
         IN  IF ~QPos(last.beta) THEN prev
             ELSE Append(prev, RecurrenceEntry(phi, last.sq, last.norm, FALSE,
                                               axis, dist))

\* the builder ended on a beta that is not positive: DegenerateMomentError
RecurrenceFails(rec) == ~QPos(rec[Len(rec)].beta)

(***************************************************************************)
(* Multi-indices of total degree <= order over dims dimensions, graded by  *)
(* total degree, lexicographic within one degree.                          *)
(***************************************************************************)
RECURSIVE GradeIndices(_, _)
RECURSIVE GradeFrom(_, _, _)
\* the multi-indices of length dims and total degree g, lexicographically
GradeIndices(dims, g) ==
    IF dims = 1 THEN << <<g>> >> ELSE GradeFrom(dims, g, 0)

GradeFrom(dims, g, first) ==
    IF first > g THEN << >>
    ELSE LET rest == GradeIndices(dims - 1, g - first)
         IN  [k \in 1..Len(rest) |-> <<first>> \o rest[k]]
             \o GradeFrom(dims, g, first + 1)

RECURSIVE glexindex(_, _)
glexindex(order, dims) ==
    IF order <= 0 THEN GradeIndices(dims, 0)
    ELSE glexindex(order - 1, dims) \o GradeIndices(dims, order)

(***************************************************************************)
(* Multivariate Basis Composer: chaospy.orth_ttr(order, dist, retall=True) *)
(***************************************************************************)
orth_ttr(order, dist) ==
    LET ra  == Recurrence(dist, 1, order)
        rI  == Recurrence(dist, 2, order)
        idx == glexindex(order, Len(dist))
    IN  [polynomials |-> [k \in 1..Len(idx) |->
                            PMul(ra[idx[k][1] + 1].phi, rI[idx[k][2] + 1].phi)] \o << >>,
         norms       |-> [k \in 1..Len(idx) |->
                            QMul(ra[idx[k][1] + 1].norm, rI[idx[k][2] + 1].norm)] \o << >>,
         indices     |-> idx]

\* the numeric-stability threshold of the Galerkin System Builder is
\* 10^-NormThresholdExponent; it lies below every norm of the notebook's own
\* scenario, whose smallest is 1/2800000000
NormThresholdExponent == 12

\* x > 10^-NormThresholdExponent, without leaving the 32-bit integers: with
\* k = x.e + NormThresholdExponent this is x.n * 10^k > x.d
AboveThreshold(x) ==
    LET k == x.e + NormThresholdExponent
    IN  /\ x.n > 0
        /\ \/ k >= 10
           \/ k >= 0 /\ k < 10 /\ x.n > x.d \div Pow10(k)
           \/ k < 0 /\ k > -10 /\ (x.n - 1) \div Pow10(-k) >= x.d

\* build_basis accepting any order: a negative one is taken as 0
BuildBasisErrorOrderUnchecked(order, dist, dims) ==
    IF \E axis \in 1..Len(dist) : RecurrenceFails(Recurrence(dist, axis, order))
    THEN "DegenerateMomentError"
    ELSE IF Len(dist) # dims THEN "DimensionMismatchError"
    ELSE "none"

\* build_basis matching the dimensionalities before it builds the recurrences
BuildBasisErrorDimsFirst(order, dist, dims) ==
    IF order < 0 THEN "InvalidOrderError"
    ELSE IF Len(dist) # dims THEN "DimensionMismatchError"
    ELSE IF \E axis \in 1..Len(dist) : RecurrenceFails(Recurrence(dist, axis, order))
    THEN "DegenerateMomentError"
    ELSE "none"

\* the error build_basis(distribution, order) ends with, "none" when it
\* returns a basis: the order is validated, one recurrence is built per
\* marginal, and their number is matched against dims, the dimensionality the
\* distribution declares
BuildBasisError(order, dist, dims) ==
    IF order < 0 THEN "InvalidOrderError"
    ELSE IF \E axis \in 1..Len(dist) : RecurrenceFails(Recurrence(dist, axis, order))
    THEN "DegenerateMomentError"
    ELSE IF Len(dist) # dims THEN "DimensionMismatchError"
    ELSE "none"

(***************************************************************************)
(* The notebook, cell by cell                                              *)
(***************************************************************************)
\* polynomial_order = 3 in the notebook; the lower orders are run as well
MaxOrder == 3

\* largest entry of a coefficient row the integrator hands back
MaxCoef == 1

\* largest dimensionality the index enumeration is sized for, and the largest
\* a distribution declares
MaxDim == 3

\* workers evaluating entries of the coupling tensor side by side
MaxWorkers == 2

\* numpy.linspace(0, 10, 1000): the first and the last output time are kept
coordinates == <<0, 10>>

\* the joint distributions the notebook is run on: independent uniform
\* marginals for a and for I with integer end points (I ~ Uniform(1, 2) is
\* the notebook's)
Distributions ==
    { J(Uniform(QInt(0), QInt(1)), Uniform(QInt(1), QInt(2))),
      J(Uniform(QInt(0), QInt(2)), Uniform(QInt(1), QInt(2))),
      J(Uniform(QInt(0), QInt(1)), Uniform(QInt(-1), QInt(1))) }

\* the notebook's own distribution: a ~ Uniform(0.1, 0.2), I ~ Uniform(1, 2)
TutorialDistribution ==
    J(Uniform(QNorm(1, 1, -1), QNorm(2, 1, -1)), Uniform(QInt(1), QInt(2)))

\* a marginal that is the law of a constant: its recurrence has beta_1 = 0
DegenerateDistributions ==
    { J(Uniform(QInt(0), QInt(1)), Uniform(QInt(1), QInt(1))),
      J(Uniform(QInt(1), QInt(1)), Uniform(QInt(1), QInt(2))) }

\* a narrow decay rate, a ~ Uniform(0, 0.01), next to the notebook's I
NarrowDistribution ==
    J(Uniform(QInt(0), QNorm(1, 1, -2)), Uniform(QInt(1), QInt(2)))

\* pc: the cell that runs next; error: the exception that stopped the run;
\* dimensionality: what len(distribution) declares; pending, working: the
\* tensor entries no worker has taken yet and the entry each worker is
\* evaluating; rhs2: a call of right_hand_side from a second evaluation point
VARIABLES pc, error, distribution, dimensionality, polynomial_order,
          polynomial_expansion, phi_outer, expected_app, norms, expected_Ip,
          initial_condition, rhs_c, rhs_t, rhs_out, coefficients, u_approx,
          mean, variance, pending, working, rhs2

vars == <<pc, error, distribution, dimensionality, polynomial_order,
          polynomial_expansion, phi_outer, expected_app, norms, expected_Ip,
          initial_condition, rhs_c, rhs_t, rhs_out, coefficients, u_approx,
          mean, variance, pending, working, rhs2>>

\* what the notebook is run on
inputs == <<distribution, dimensionality, polynomial_order>>

\* what only a run with several workers or evaluation points touches
concurrent == <<pending, working, rhs2>>

\* the cell that runs next, in notebook order
CellOf ==
    [failed |-> 0, expansion |-> 3, outer |-> 5, expected_app |-> 6,
     tensor_workers |-> 6, norms |-> 7, initial_condition |-> 9, odeint |-> 10,
     odeint_func |-> 10, u_approx |-> 11, moments |-> 12, done |-> 13]

\* cell n has been run
Ran(n) == CellOf[pc] > n

\* var_a, var_I = chaospy.variable(2)
var_a == variable(1)

var_I == variable(2)

\* chaospy.outer(x, y)[i][j] = x[i] * y[j]
outer(x, y) ==
    [i \in 1..Len(x) |-> [j \in 1..Len(y) |-> PMul(x[i], y[j])] \o << >>] \o << >>

\* cell 3 with the basis listed backwards
PolynomialExpansionReversed ==
    LET polys == orth_ttr(polynomial_order, distribution).polynomials
    IN  [k \in 1..Len(polys) |-> polys[Len(polys) + 1 - k]] \o << >>

\* cell 3 with the order off by one
PolynomialExpansionLowerOrder ==
    orth_ttr(Max(polynomial_order - 1, 0), distribution).polynomials

\* cell 3 with the marginals in the wrong positions
PolynomialExpansionSwapped ==
    orth_ttr(polynomial_order, J(distribution[2], distribution[1])).polynomials

\* cell 3: polynomial_expansion = chaospy.orth_ttr(polynomial_order, distribution)
PolynomialExpansion == orth_ttr(polynomial_order, distribution).polynomials

\* cell 5 with the second argument listed backwards
PhiOuterReversed ==
    outer(polynomial_expansion,
          [k \in 1..Len(polynomial_expansion) |->
              polynomial_expansion[Len(polynomial_expansion) + 1 - k]])

\* cell 5: phi_outer = chaospy.outer(polynomial_expansion, polynomial_expansion)
PhiOuter == outer(polynomial_expansion, polynomial_expansion)

\* cell 6: expected_app = chaospy.E(var_a*phi_outer, distribution)
ExpectedApp ==
    [i \in 1..Len(phi_outer) |->
        [j \in 1..Len(phi_outer[i]) |->
            E(PMul(var_a, phi_outer[i][j]), distribution)] \o << >>] \o << >>

\* cell 7 taking E[Phi_k] for the norms
NormsFromMeans ==
    [k \in 1..Len(polynomial_expansion) |->
        E(polynomial_expansion[k], distribution)] \o << >>

\* cell 7 with the marginals in the wrong positions
NormsSwapped ==
    orth_ttr(polynomial_order, J(distribution[2], distribution[1])).norms

\* cell 7: _, norms = chaospy.orth_ttr(polynomial_order, distribution, retall=True)
Norms == orth_ttr(polynomial_order, distribution).norms

\* cell 8 dividing inside the sum: -numpy.sum(c*expected_app/norms, -1)
right_hand_side_divided_inside(c, t) ==
    [k \in 1..Len(norms) |->
        QNeg(QSum([n \in 1..Len(c) |->
                     QDiv(QMul(c[n], expected_app[k][n]), norms[n])]))] \o << >>

\* cell 8 with a right-hand side that grows with time
right_hand_side_scaled_by_t(c, t) ==
    [k \in 1..Len(norms) |->
        QDiv(QNeg(QSum([n \in 1..Len(c) |->
                          QMul(QInt(1 + t), QMul(c[n], expected_app[k][n]))])),
             norms[k])] \o << >>

\* cell 8: -numpy.sum(c*expected_app, -1)/norms.  c broadcasts along the last
\* axis, so entry k sums c[n]*expected_app[k][n] over n
right_hand_side(c, t) ==
    [k \in 1..Len(norms) |->
        QDiv(QNeg(QSum([n \in 1..Len(c) |-> QMul(c[n], expected_app[k][n])])),
             norms[k])] \o << >>

\* cell 8 raises when c does not broadcast along the last axis of expected_app
\* (numpy's ValueError); a division by a zero norm raises nothing
right_hand_side_raises(c, t) ==
    Len(c) # Len(expected_app) /\ Len(c) # 1 /\ Len(expected_app) # 1

\* cell 9 projecting the other variable: chaospy.E(var_a*polynomial_expansion, ...)
ExpectedIpOfA ==
    [k \in 1..Len(polynomial_expansion) |->
        E(PMul(var_a, polynomial_expansion[k]), distribution)] \o << >>

\* cell 9: expected_Ip = chaospy.E(var_I*polynomial_expansion, distribution)
ExpectedIp ==
    [k \in 1..Len(polynomial_expansion) |->
        E(PMul(var_I, polynomial_expansion[k]), distribution)] \o << >>

\* cell 9 without the division by the norms
InitialConditionUnnormalised(eIp) == eIp

\* cell 9: initial_condition = expected_Ip / norms
InitialCondition(eIp) == [k \in 1..Len(eIp) |-> QDiv(eIp[k], norms[k])] \o << >>

\* the coefficient rows the integrator may evaluate at or hand back: at most
\* two non-zero entries, each in 1..MaxCoef; over the notebook's own
\* distribution, whose norms span ten orders of magnitude, at most one
Rows(M) ==
    { [k \in 1..M |-> IF k = i THEN QInt(x)
                      ELSE IF k = j /\ distribution \in Distributions THEN QInt(y)
                      ELSE QZero]
        \o << >> : i \in 1..M, j \in 1..M, x \in 0..MaxCoef, y \in 0..MaxCoef }

\* the integrator dropping the last entry of the vectors it hands to func
FuncArgumentsTruncated(M) ==
    { SubSeq(c, 1, Len(c) - 1) : c \in Rows(M) \cup {initial_condition} }

\* the points odeint evaluates func at: y0 and any row
FuncArguments(M) == Rows(M) \cup {initial_condition}

\* cell 11 pairing the coefficients with the basis in the opposite order
UApproxReversed ==
    [r \in 1..Len(coefficients) |->
        PSum([k \in 1..Len(polynomial_expansion) |->
                PScale(coefficients[r][Len(polynomial_expansion) + 1 - k],
                       polynomial_expansion[k])])] \o << >>

\* cell 11: u_approx = chaospy.sum(polynomial_expansion*coefficients, -1)
UApprox ==
    [r \in 1..Len(coefficients) |->
        PSum([k \in 1..Len(polynomial_expansion) |->
                PScale(coefficients[r][k], polynomial_expansion[k])])] \o << >>

\* cell 12: mean = chaospy.E(u_approx, distribution)
Mean == [r \in 1..Len(u_approx) |-> E(u_approx[r], distribution)] \o << >>

\* cell 12 taking the second moment for the variance
VarianceUncentred ==
    [r \in 1..Len(u_approx) |->
        E(PMul(u_approx[r], u_approx[r]), distribution)] \o << >>

\* cell 12: variance = chaospy.Var(u_approx, distribution)
Variance == [r \in 1..Len(u_approx) |-> Var(u_approx[r], distribution)] \o << >>

\* nothing has run yet
Blank ==
    /\ pc = "expansion"
    /\ error = "none"
    /\ polynomial_expansion = << >>
    /\ phi_outer = << >>
    /\ expected_app = << >>
    /\ norms = << >>
    /\ expected_Ip = << >>
    /\ initial_condition = << >>
    /\ rhs_c = << >>
    /\ rhs_t = 0
    /\ rhs_out = << >>
    /\ coefficients = << >>
    /\ u_approx = << >>
    /\ mean = << >>
    /\ variance = << >>
    /\ pending = {}
    /\ working = [w \in 1..MaxWorkers |-> << >>]
    /\ rhs2 = << >>

\* the notebook's cells on any of the distributions and orders, the ones
\* build_basis rejects included
Init ==
    /\ Blank
    /\ distribution \in Distributions \cup DegenerateDistributions
    /\ dimensionality \in 1..MaxDim
    /\ polynomial_order \in -1..MaxOrder

\* cell 3; an exception of orth_ttr stops the run
CellExpansion ==
    /\ pc = "expansion"
    /\ LET err == BuildBasisError(polynomial_order, distribution, dimensionality)
       IN  IF err = "none"
           THEN /\ polynomial_expansion' = PolynomialExpansion
                /\ pc' = "outer"
                /\ error' = error
           ELSE /\ polynomial_expansion' = polynomial_expansion
                /\ pc' = "failed"
                /\ error' = err
    /\ UNCHANGED <<inputs, concurrent, phi_outer, expected_app, norms, expected_Ip,
                   initial_condition, rhs_c, rhs_t, rhs_out, coefficients,
                   u_approx, mean, variance>>

CellOuter ==
    /\ pc = "outer"
    /\ phi_outer' = PhiOuter
    /\ pc' = "expected_app"
    /\ UNCHANGED <<inputs, error, concurrent, polynomial_expansion,
                   expected_app, norms, expected_Ip, initial_condition, rhs_c,
                   rhs_t, rhs_out, coefficients, u_approx, mean, variance>>

CellExpectedApp ==
    /\ pc = "expected_app"
    /\ expected_app' = ExpectedApp
    /\ pc' = "norms"
    /\ UNCHANGED <<inputs, error, concurrent, polynomial_expansion, phi_outer,
                   norms, expected_Ip, initial_condition, rhs_c, rhs_t, rhs_out,
                   coefficients, u_approx, mean, variance>>

\* cell 7; orth_ttr runs a second time, for the norms
CellNorms ==
    /\ pc = "norms"
    /\ LET err == BuildBasisError(polynomial_order, distribution, dimensionality)
       IN  IF err = "none"
           THEN /\ norms' = Norms
                /\ pc' = "initial_condition"
                /\ error' = error
           ELSE /\ norms' = norms
                /\ pc' = "failed"
                /\ error' = err
    /\ UNCHANGED <<inputs, concurrent, polynomial_expansion, phi_outer,
                   expected_app, expected_Ip, initial_condition, rhs_c, rhs_t,
                   rhs_out, coefficients, u_approx, mean, variance>>

CellInitialCondition ==
    /\ pc = "initial_condition"
    /\ expected_Ip' = ExpectedIp
    /\ initial_condition' = InitialCondition(ExpectedIp)
    /\ pc' = "odeint"
    /\ UNCHANGED <<inputs, error, concurrent, polynomial_expansion, phi_outer,
                   expected_app, norms, rhs_c, rhs_t, rhs_out, coefficients,
                   u_approx, mean, variance>>

\* cell 10, inside odeint: the integrator evaluates func=right_hand_side at a
\* point (c, t) of its choosing; an exception of func stops the run
OdeintCall ==
    /\ pc = "odeint"
    /\ \E c \in FuncArguments(Len(initial_condition)) :
       \E i \in 1..Len(coordinates) :
          /\ rhs_c' = c
          /\ rhs_t' = coordinates[i]
          /\ IF right_hand_side_raises(c, coordinates[i])
             THEN /\ rhs_out' = << >>
                  /\ error' = "ValueError"
                  /\ pc' = "failed"
             ELSE /\ rhs_out' = right_hand_side(c, coordinates[i])
                  /\ error' = error
                  /\ pc' = "odeint_func"
    /\ UNCHANGED <<inputs, concurrent, polynomial_expansion,
                   phi_outer, expected_app, norms, expected_Ip, initial_condition,
                   coefficients, u_approx, mean, variance>>

\* the integrator takes the value func returned and goes on
OdeintResume ==
    /\ pc = "odeint_func"
    /\ rhs_c' = << >>
    /\ rhs_t' = 0
    /\ rhs_out' = << >>
    /\ pc' = "odeint"
    /\ UNCHANGED <<inputs, error, concurrent, polynomial_expansion,
                   phi_outer, expected_app, norms, expected_Ip, initial_condition,
                   coefficients, u_approx, mean, variance>>

\* cell 10: coefficients = odeint(func=right_hand_side, y0=initial_condition,
\* t=coordinates).  The row of the first output time is y0; the integrator is
\* not part of the notebook, so its later rows are any rows
OdeintReturn ==
    /\ pc = "odeint"
    /\ \E row \in Rows(Len(initial_condition)) :
          coefficients' = <<initial_condition, row>>
    /\ pc' = "u_approx"
    /\ UNCHANGED <<inputs, error, concurrent, polynomial_expansion, phi_outer,
                   expected_app, norms, expected_Ip, initial_condition, rhs_c,
                   rhs_t, rhs_out, u_approx, mean, variance>>

CellUApprox ==
    /\ pc = "u_approx"
    /\ u_approx' = UApprox
    /\ pc' = "moments"
    /\ UNCHANGED <<inputs, error, concurrent, polynomial_expansion, phi_outer,
                   expected_app, norms, expected_Ip, initial_condition, rhs_c,
                   rhs_t, rhs_out, coefficients, mean, variance>>

CellMoments ==
    /\ pc = "moments"
    /\ mean' = Mean
    /\ variance' = Variance
    /\ pc' = "done"
    /\ UNCHANGED <<inputs, error, concurrent, polynomial_expansion, phi_outer,
                   expected_app, norms, expected_Ip, initial_condition, rhs_c,
                   rhs_t, rhs_out, coefficients, u_approx>>

Next ==
    \/ CellExpansion
    \/ CellOuter
    \/ CellExpectedApp
    \/ CellNorms
    \/ CellInitialCondition
    \/ OdeintCall
    \/ OdeintResume
    \/ OdeintReturn
    \/ CellUApprox
    \/ CellMoments

Spec == Init /\ [][Next]_vars

\* the notebook as it stands, on its own distribution and on a narrower one,
\* at every order up to its polynomial_order = 3
InitScenario ==
    /\ Blank
    /\ distribution \in {TutorialDistribution, NarrowDistribution}
    /\ dimensionality = 2
    /\ polynomial_order \in 0..MaxOrder

SpecScenario == InitScenario /\ [][Next]_vars

(***************************************************************************)
(* Cell 6 with its M*M expectations evaluated by workers side by side, and *)
(* right_hand_side called from a second evaluation point while the         *)
(* integrator runs                                                         *)
(***************************************************************************)
\* an entry of the tensor no worker has written yet: not a number
Unwritten == [n |-> 0, d |-> 0, e |-> 0]

\* the orders whose tensor, of 1 and of 9 entries, the workers fill
ParallelOrders == {0, 1}

\* the barrier opening as soon as no entry is left to take
BarrierOpenNothingPending == pending = {}

\* the barrier: no entry is left to take and no worker is still evaluating one
BarrierOpen == pending = {} /\ \A w \in 1..MaxWorkers : working[w] = << >>

\* the tensor is allocated and its M*M entries are handed out
TensorStart ==
    /\ pc = "expected_app"
    /\ pending' = { <<i, j>> : i \in 1..Len(phi_outer), j \in 1..Len(phi_outer) }
    /\ expected_app' = [i \in 1..Len(phi_outer) |->
                           [j \in 1..Len(phi_outer) |-> Unwritten] \o << >>] \o << >>
    /\ pc' = "tensor_workers"
    /\ UNCHANGED <<inputs, error, working, rhs2, polynomial_expansion, phi_outer,
                   norms, expected_Ip, initial_condition, rhs_c, rhs_t, rhs_out,
                   coefficients, u_approx, mean, variance>>

\* an idle worker takes any entry that is left
TensorClaim(w) ==
    /\ pc = "tensor_workers"
    /\ working[w] = << >>
    /\ \E entry \in pending :
          /\ working' = [working EXCEPT ![w] = entry]
          /\ pending' = pending \ {entry}
    /\ UNCHANGED <<inputs, error, rhs2, pc, polynomial_expansion, phi_outer,
                   expected_app, norms, expected_Ip, initial_condition, rhs_c,
                   rhs_t, rhs_out, coefficients, u_approx, mean, variance>>

\* a worker writes the entry it took: E(var_a*phi_outer[i][j], distribution)
TensorWrite(w) ==
    /\ working[w] # << >>
    /\ LET i == working[w][1]
           j == working[w][2]
       IN  expected_app' =
              [expected_app EXCEPT
                 ![i][j] = E(PMul(var_a, phi_outer[i][j]), distribution)]
    /\ working' = [working EXCEPT ![w] = << >>]
    /\ UNCHANGED <<inputs, error, pending, rhs2, pc, polynomial_expansion,
                   phi_outer, norms, expected_Ip, initial_condition, rhs_c,
                   rhs_t, rhs_out, coefficients, u_approx, mean, variance>>

\* the workers are joined; the tensor is complete and the run goes on
TensorBarrier ==
    /\ pc = "tensor_workers"
    /\ BarrierOpen
    /\ pc' = "norms"
    /\ UNCHANGED <<inputs, error, concurrent, polynomial_expansion, phi_outer,
                   expected_app, norms, expected_Ip, initial_condition, rhs_c,
                   rhs_t, rhs_out, coefficients, u_approx, mean, variance>>

\* a second evaluation point calls right_hand_side while the integrator runs,
\* whether or not the integrator is inside a call of its own
OdeintCall2 ==
    /\ pc \in {"odeint", "odeint_func"}
    /\ rhs2 = << >>
    /\ \E c \in FuncArguments(Len(initial_condition)) :
       \E i \in 1..Len(coordinates) :
          rhs2' = <<c, coordinates[i], right_hand_side(c, coordinates[i])>>
    /\ UNCHANGED <<inputs, error, pending, working, pc, polynomial_expansion,
                   phi_outer, expected_app, norms, expected_Ip, initial_condition,
                   rhs_c, rhs_t, rhs_out, coefficients, u_approx, mean, variance>>

\* the second evaluation point takes the value returned
OdeintResume2 ==
    /\ rhs2 # << >>
    /\ rhs2' = << >>
    /\ UNCHANGED <<inputs, error, pending, working, pc, polynomial_expansion,
                   phi_outer, expected_app, norms, expected_Ip, initial_condition,
                   rhs_c, rhs_t, rhs_out, coefficients, u_approx, mean, variance>>

\* the distribution the workers are run on: a ~ Uniform(0, 1) next to the
\* notebook's I ~ Uniform(1, 2)
ParallelDistribution == J(Uniform(QInt(0), QInt(1)), Uniform(QInt(1), QInt(2)))

InitParallel ==
    /\ Blank
    /\ distribution = ParallelDistribution
    /\ dimensionality = 2
    /\ polynomial_order \in ParallelOrders

\* cell 6 either as the notebook runs it or split over the workers
NextParallel ==
    \/ Next
    \/ TensorStart
    \/ \E w \in 1..MaxWorkers : TensorClaim(w)
    \/ \E w \in 1..MaxWorkers : TensorWrite(w)
    \/ TensorBarrier
    \/ OdeintCall2
    \/ OdeintResume2

SpecParallel == InitParallel /\ [][NextParallel]_vars

(***************************************************************************)
(* Properties                                                              *)
(***************************************************************************)
\* the multi-index of a basis polynomial: its degrees in q0 and in q1
MultiIndex(p) == <<p.da, p.dI>>

\* the position in the basis of the polynomial with multi-index idx
Position(idx) ==
    CHOOSE k \in 1..Len(polynomial_expansion) :
        MultiIndex(polynomial_expansion[k]) = idx

RECURSIVE Binomial(_, _)
Binomial(n, k) == IF k = 0 THEN 1 ELSE (Binomial(n - 1, k - 1) * n) \div k

\* sum over k in from..Len(c) of c[k]^2 * norms[k]
SquaresAgainstNorms(c, from) ==
    QSum([k \in 1..(Len(c) - from + 1) |->
            QMul(QMul(c[k + from - 1], c[k + from - 1]), norms[k + from - 1])])

\* s comes before t: lower total degree, or the same and lexicographically less
GradedLexLess(s, t) ==
    \/ s[1] + s[2] < t[1] + t[2]
    \/ s[1] + s[2] = t[1] + t[2] /\ s[1] < t[1]

\* C1: every value right_hand_side returns is, at each output index k,
\* -(sum over n of c[n]*T[n,k]) / norms[k] with T = expected_app
C1_RhsIsProjectedEquation ==
    pc = "odeint_func" =>
        /\ Len(rhs_out) = Len(norms)
        /\ \A k \in 1..Len(norms) :
              rhs_out[k] =
                QDiv(QNeg(QSum([n \in 1..Len(rhs_c) |->
                                  QMul(rhs_c[n], expected_app[n][k])])),
                     norms[k])

\* C1 witness: right_hand_side has returned for a row with two non-zero
\* entries, one of them coupled to another mode by an off-diagonal T entry
C1_Witness ==
    /\ pc = "odeint_func"
    /\ Len(norms) = 10
    /\ Cardinality({n \in 1..Len(rhs_c) : rhs_c[n] # QZero}) = 2
    /\ \E n \in 1..10 : \E k \in 1..10 :
          n # k /\ rhs_c[n] # QZero /\ expected_app[n][k] # QZero /\ rhs_out[k] # QZero

\* C2: the initial coefficient vector is E[I * Phi_k] / norms[k], entry by
\* entry in the order of the basis
C2_InitialConditionIsProjection ==
    pc = "odeint" =>
        /\ Len(initial_condition) = Len(polynomial_expansion)
        /\ \A k \in 1..Len(polynomial_expansion) :
              /\ expected_Ip[k] = E(PMul(var_I, polynomial_expansion[k]), distribution)
              /\ initial_condition[k] = QDiv(expected_Ip[k], norms[k])

\* C2 witness: the order 3 initial condition over I ~ Uniform(1, 2) is built,
\* with a norm other than 1 dividing a non-zero projection
C2_Witness ==
    /\ pc = "odeint"
    /\ Len(initial_condition) = 10
    /\ initial_condition[1] = QNorm(3, 2, 0)
    /\ initial_condition[2] = QOne
    /\ expected_Ip[2] = QNorm(1, 12, 0)

\* C3: the basis lists the multi-indices of total degree <= order once each,
\* by ascending total degree and lexicographically within a degree; for
\* order >= 2 it starts (0,0), (0,1), (1,0), (0,2)
C3_GradedLexOrder ==
    Ran(3) =>
        LET M   == Len(polynomial_expansion)
            idx == [k \in 1..M |-> MultiIndex(polynomial_expansion[k])]
        IN  /\ \A k \in 1..M :
                  PCoef(polynomial_expansion[k], idx[k][1], idx[k][2]) = QOne
            /\ \A k \in 1..(M - 1) : GradedLexLess(idx[k], idx[k + 1])
            /\ {idx[k] : k \in 1..M} =
                  {t \in (0..polynomial_order) \X (0..polynomial_order) :
                      t[1] + t[2] <= polynomial_order}
            /\ polynomial_order >= 2 =>
                  SubSeq(idx, 1, 4) = << <<0, 0>>, <<0, 1>>, <<1, 0>>, <<0, 2>> >>

\* C3 witness: an order 3 basis, whose degree 2 and 3 ties need the tie-break
C3_Witness ==
    /\ pc = "outer"
    /\ polynomial_order = 3
    /\ MultiIndex(polynomial_expansion[8]) = <<1, 2>>
    /\ MultiIndex(polynomial_expansion[9]) = <<2, 1>>

\* C4: the basis has C(order + d, d) elements (d = 2 in the notebook), the
\* norms, both axes of the tensors, the initial condition and every
\* coefficient row have that length, and the index enumeration has
\* C(order + d, d) entries for every d
C4_Sizes ==
    LET M == Binomial(polynomial_order + Len(distribution), Len(distribution))
    IN  /\ Ran(3) => Len(polynomial_expansion) = M
        /\ Ran(3) /\ polynomial_order = 3 => Len(polynomial_expansion) = 10
        /\ Ran(5) => Len(phi_outer) = M /\ \A i \in 1..M : Len(phi_outer[i]) = M
        /\ Ran(6) => Len(expected_app) = M /\ \A i \in 1..M : Len(expected_app[i]) = M
        /\ Ran(7) => Len(norms) = M
        /\ Ran(9) => Len(expected_Ip) = M /\ Len(initial_condition) = M
        /\ Ran(10) => \A r \in 1..Len(coefficients) : Len(coefficients[r]) = M
        /\ pc = "outer" =>
              \A d \in 1..MaxDim :
                  Len(glexindex(polynomial_order, d)) = Binomial(polynomial_order + d, d)

\* C4 witness: the order 3 pipeline has run to the integrator's result
C4_Witness ==
    /\ pc = "u_approx"
    /\ polynomial_order = 3
    /\ Len(norms) = 10
    /\ Len(coefficients) = 2

\* C5: distinct basis polynomials are orthogonal under the distribution
C5_Orthogonal ==
    pc = "outer" =>
        \A i \in 1..Len(polynomial_expansion) :
            \A j \in 1..Len(polynomial_expansion) :
                i # j => E(PMul(polynomial_expansion[i], polynomial_expansion[j]),
                           distribution) = QZero

\* C5 witness: an order 3 basis with mixed polynomials in both variables
C5_Witness ==
    /\ pc = "outer"
    /\ Len(polynomial_expansion) = 10
    /\ MultiIndex(polynomial_expansion[5]) = <<1, 1>>
    /\ PCoef(polynomial_expansion[5], 0, 0) # QZero

\* C6: every norm of the basis is positive
C6_NormsPositive ==
    Ran(7) => \A k \in 1..Len(norms) : QPos(norms[k])

\* C6 witness: the norms of an order 3 basis, not all equal to 1
C6_Witness ==
    /\ pc = "initial_condition"
    /\ Len(norms) = 10
    /\ norms[10] # QOne

\* C7: norms[k] is the product of the per-dimension norms of its multi-index
\* and equals E[Phi_k^2], so the outer-product-then-expectation tensor for
\* weight 1 is the diagonal of the norms
C7_NormsAreGramDiagonal ==
    pc = "initial_condition" =>
        /\ \A k \in 1..Len(norms) :
              LET idx == MultiIndex(polynomial_expansion[k])
              IN  norms[k] = QMul(norms[Position(<<idx[1], 0>>)],
                                  norms[Position(<<0, idx[2]>>)])
        /\ \A i \in 1..Len(norms) : \A j \in 1..Len(norms) :
              E(phi_outer[i][j], distribution) = IF i = j THEN norms[i] ELSE QZero

\* C7 witness: order 3 norms over marginals of different widths, with a
\* mixed mode whose norm is a proper product
C7_Witness ==
    /\ pc = "initial_condition"
    /\ Len(norms) = 10
    /\ norms[2] # norms[3]
    /\ norms[5] = QMul(norms[2], norms[3])
    /\ norms[5] # norms[2]

\* C8: the coupling tensor is symmetric for the weight a and for the weight
\* 1, and evaluating the pairs i <= j and mirroring gives the stored tensor
C8_TensorSymmetric ==
    /\ Ran(6) =>
          \A i \in 1..Len(expected_app) : \A j \in 1..Len(expected_app) :
              expected_app[i][j] = expected_app[j][i]
    /\ pc = "norms" =>
          \A i \in 1..Len(expected_app) : \A j \in i..Len(expected_app) :
              LET upper == E(PMul(var_a, PMul(polynomial_expansion[i],
                                              polynomial_expansion[j])), distribution)
              IN  /\ expected_app[i][j] = upper
                  /\ expected_app[j][i] = upper
                  /\ E(phi_outer[i][j], distribution) = E(phi_outer[j][i], distribution)

\* C8 witness: an order 3 tensor with a non-zero off-diagonal pair
C8_Witness ==
    /\ pc = "norms"
    /\ Len(expected_app) = 10
    /\ expected_app[1][3] # QZero
    /\ expected_app[3][1] = expected_app[1][3]

\* C9: for every coefficient row, the variance of the re-expanded polynomial
\* is the sum over k >= 1 of c[k]^2 * norms[k], and its second moment is the
\* sum over all k (rows are indexed from 1 here: k >= 1 is position >= 2)
C9_Parseval ==
    pc = "done" =>
        \A r \in 1..Len(coefficients) :
            /\ variance[r] = SquaresAgainstNorms(coefficients[r], 2)
            /\ E(PMul(u_approx[r], u_approx[r]), distribution)
                  = SquaresAgainstNorms(coefficients[r], 1)

\* C9 witness: moments of an order 3 row with two non-zero entries beyond the
\* constant mode, and of the initial condition
C9_Witness ==
    /\ pc = "done"
    /\ Len(norms) = 10
    /\ coefficients[2][1] = QZero
    /\ Cardinality({k \in 2..10 : coefficients[2][k] # QZero}) = 2
    /\ variance[2] # QZero
    /\ variance[1] = QNorm(1, 12, 0)

\* C10: for every coefficient row the mean of the re-expanded polynomial is
\* the row's first entry, Phi_0 being 1 and E[Phi_k] being 0 for k > 0
C10_MeanIsFirstCoefficient ==
    /\ pc = "done" => \A r \in 1..Len(coefficients) : mean[r] = coefficients[r][1]
    /\ pc = "outer" =>
          /\ PEq(polynomial_expansion[1], PConst(QOne))
          /\ \A k \in 2..Len(polynomial_expansion) :
                E(polynomial_expansion[k], distribution) = QZero

\* C10 witness: the mean of an order 3 row with a non-zero first entry and a
\* non-zero higher mode, next to the initial condition's mean 3/2
C10_Witness ==
    /\ pc = "done"
    /\ Len(norms) = 10
    /\ mean[1] = QNorm(3, 2, 0)
    /\ mean[2] = QOne
    /\ \E k \in 2..10 : coefficients[2][k] # QZero

\* C11: in the notebook's scenario (a ~ Uniform(0.1, 0.2), I ~ Uniform(1, 2),
\* order 3, M = 10) the initial coefficient vector has c0[0] = 1.5, the mean
\* of I, and, that first entry aside, c0[k] = 0 for every k whose multi-index
\* does not have degree 1 in I; the expansion it stands for is I itself, as
\* the notebook prints for u_approx[0]
C11_ScenarioInitialCondition ==
    distribution = TutorialDistribution /\ polynomial_order = 3 =>
        /\ Ran(9) =>
              /\ Len(initial_condition) = 10
              /\ initial_condition[1] = QNorm(15, 1, -1)
              /\ initial_condition[1] = E(var_I, distribution)
              /\ \A k \in 2..10 :
                    MultiIndex(polynomial_expansion[k])[2] # 1
                        => initial_condition[k] = QZero
        /\ Ran(10) => coefficients[1] = initial_condition
        /\ Ran(11) => PEq(u_approx[1], var_I)

\* C11 witness: the scenario's initial condition is built and carries the
\* mean of I in front and a non-zero entry on the degree-1 mode of I
C11_Witness ==
    /\ pc = "odeint"
    /\ distribution = TutorialDistribution
    /\ polynomial_order = 3
    /\ initial_condition[1] = QNorm(3, 2, 0)
    /\ MultiIndex(polynomial_expansion[2]) = <<0, 1>>
    /\ initial_condition[2] = QOne
    /\ norms[3] = QNorm(1, 1200, 0)

\* C13: once norms holds an entry at or below the numeric-stability
\* threshold, the Galerkin cells (right_hand_side and initial_condition) do
\* not go through: the run stops with SingularNormError, and neither c0 nor a
\* value of right_hand_side is produced from a division by that norm
C13_SingularNormError ==
    (\E k \in 1..Len(norms) : ~AboveThreshold(norms[k])) =>
        \/ pc = "initial_condition"
        \/ /\ pc = "failed"
           /\ error = "SingularNormError"
           /\ initial_condition = << >>
           /\ rhs_out = << >>


\* beta_n of the marginal Uniform(lower, upper) in closed form (the shifted
\* Legendre polynomials): beta_0 = 1, beta_n = n^2 (upper - lower)^2 / (4 (4 n^2 - 1))
UniformBeta(D, n) ==
    IF n = 0 THEN QOne
    ELSE QDiv(QMul(QInt(n * n), QPow(QSub(D.upper, D.lower), 2)),
              QInt(4 * (4 * n * n - 1)))

\* the n in 0..order at which the recurrence of a marginal has a beta_n that
\* is not positive
NonPositiveBetas(D, order) == { n \in 0..order : ~QPos(UniformBeta(D, n)) }

\* every marginal has a recurrence up to the order asked for
RecurrencesSupplied ==
    \A axis \in 1..Len(distribution) :
        NonPositiveBetas(distribution[axis], polynomial_order) = {}

\* the run was stopped by err before any basis or norm came to exist
StoppedBy(err) ==
    /\ pc = "failed"
    /\ error = err
    /\ polynomial_expansion = << >>
    /\ norms = << >>

\* C14: build_basis fails with InvalidOrderError when order < 0, and with
\* DimensionMismatchError when the recurrences supplied (one per marginal) are
\* not as many as the dimensionality the distribution declares; either way no
\* basis is produced, and neither error is raised on any other input
C14_OrderAndDimensionErrors ==
    /\ polynomial_order < 0 =>
          pc = "expansion" \/ StoppedBy("InvalidOrderError")
    /\ polynomial_order >= 0 /\ RecurrencesSupplied
          /\ Len(distribution) # dimensionality =>
          pc = "expansion" \/ StoppedBy("DimensionMismatchError")
    /\ error = "InvalidOrderError" => polynomial_order < 0
    /\ error = "DimensionMismatchError" => Len(distribution) # dimensionality
    /\ Ran(3) => polynomial_order >= 0 /\ Len(distribution) = dimensionality

C14_Witness ==
    /\ StoppedBy("InvalidOrderError")
    /\ polynomial_order = -1
    /\ dimensionality = 3
    /\ distribution \in Distributions

\* C15: the recurrence builder fails with DegenerateMomentError as soon as a
\* beta_n, n in 0..N, is not positive (it computes nothing past that n), and
\* a basis is returned only when every beta_n of every marginal is positive
\* (seen on the basis right after it is built)
C15_DegenerateMoment ==
    LET N == polynomial_order
    IN  /\ N >= 0 /\ ~RecurrencesSupplied =>
              pc = "expansion" \/ StoppedBy("DegenerateMomentError")
        /\ error = "DegenerateMomentError" => N >= 0 /\ ~RecurrencesSupplied
        /\ N >= 0 /\ pc \in {"expansion", "failed"} =>
              \A axis \in 1..Len(distribution) :
                 LET bad   == NonPositiveBetas(distribution[axis], N)
                     first == CHOOSE n \in bad : \A m \in bad : n <= m
                     rec   == Recurrence(distribution, axis, N)
                 IN  /\ \A k \in 1..Len(rec) :
                           rec[k].beta = UniformBeta(distribution[axis], k - 1)
                     /\ Len(rec) = IF bad = {} THEN N + 1 ELSE first + 1
                     /\ RecurrenceFails(rec) <=> bad # {}
        /\ pc = "outer" =>
              \A axis \in 1..Len(distribution) :
                 LET sq == [n \in 0..N |->
                              LET phi == polynomial_expansion[Position(
                                             IF axis = 1 THEN <<n, 0>> ELSE <<0, n>>)]
                              IN  E(PMul(phi, phi), distribution)]
                 IN  \A n \in 1..N :
                        /\ QPos(sq[n])
                        /\ QDiv(sq[n], sq[n - 1]) = UniformBeta(distribution[axis], n)

C15_Witness ==
    /\ StoppedBy("DegenerateMomentError")
    /\ polynomial_order = 2
    /\ dimensionality = 3
    /\ distribution[1].lower = distribution[1].upper

\* the cells that construct the basis, the coupling tensor and the system
Constructing ==
    pc \in {"expansion", "outer", "expected_app", "tensor_workers", "norms",
            "initial_condition"}

\* C16: an error is raised only by a step that constructs the basis, the
\* tensor or the system; once right_hand_side and initial_condition exist,
\* every call the integrator can make returns a vector of M values, and no
\* step of the integration raises an error or stops the run
C16_ErrorsOnlyAtConstruction ==
    [][/\ error' # error \/ pc' = "failed" => Constructing
       /\ Ran(9) =>
             /\ error = "none" /\ error' = "none"
             /\ \A c \in FuncArguments(Len(initial_condition)) :
                \A i \in 1..Len(coordinates) :
                   ~right_hand_side_raises(c, coordinates[i])
             /\ pc' = "odeint_func" =>
                   /\ Len(rhs_out') = Len(initial_condition)
                   /\ \A k \in 1..Len(norms) : norms[k] # QZero]_vars

C16_Witness ==
    /\ pc = "odeint_func"
    /\ error = "none"
    /\ rhs_t = 10
    /\ rhs_c # initial_condition
    /\ Len(rhs_out) = 6

\* the entries of the tensor still to be written: left to take, or taken by a
\* worker that has not written yet
Outstanding == (pending \cup { working[w] : w \in 1..MaxWorkers }) \ { << >> }

\* C17: with the M*M expectations of cell 6 evaluated by workers side by
\* side, in every interleaving an entry is unwritten exactly while it is
\* still to be taken or in a worker's hands, an entry once written is not
\* written again, the run passes the barrier only with every entry written,
\* the tensor it then holds is the one the single-threaded cell computes, and
\* no step after the barrier changes it
C17_ParallelTensor ==
    /\ [](/\ pc = "tensor_workers" =>
                \A i \in 1..Len(phi_outer) : \A j \in 1..Len(phi_outer) :
                   expected_app[i][j] = Unwritten <=> <<i, j>> \in Outstanding
          /\ Ran(6) => expected_app = ExpectedApp /\ Outstanding = {})
    /\ [][/\ Ran(6) => expected_app' = expected_app
          /\ pc = "tensor_workers" =>
                \A i \in 1..Len(expected_app) : \A j \in 1..Len(expected_app) :
                   /\ pc' # pc => expected_app[i][j] # Unwritten
                   /\ expected_app[i][j] # Unwritten =>
                         expected_app'[i][j] = expected_app[i][j]]_vars

C17_Witness ==
    /\ pc = "tensor_workers"
    /\ Len(expected_app) = 3
    /\ pending = {}
    /\ working[1] = << >>
    /\ working[2] = <<1, 1>>
    /\ expected_app[1][1] = Unwritten
    /\ expected_app[3][3] # Unwritten
    /\ expected_app[2][2] = QNorm(1, 24, 0)

\* the closed linear map as a matrix: A[k][n] = -T[n][k] / norms[k]
RhsMatrix ==
    [k \in 1..Len(norms) |->
        [n \in 1..Len(norms) |->
            QDiv(QNeg(expected_app[n][k]), norms[k])] \o << >>] \o << >>

\* A * c
MatVec(A, c) ==
    [k \in 1..Len(A) |->
        QSum([n \in 1..Len(c) |-> QMul(A[k][n], c[n])])] \o << >>

\* C18: whatever t is, whichever calls came before and whichever call runs
\* at the same time from another evaluation point, right_hand_side(c, t) is
\* A * c with A[k][n] = -T[n][k] / norms[k]; a call changes neither the
\* tensor and the norms, of which A is a function, nor the vector and the
\* result of a call that is under way
C18_RhsPureLinearMap ==
    /\ [](LET A == RhsMatrix
          IN  /\ pc = "odeint_func" => rhs_out = MatVec(A, rhs_c)
              /\ rhs2 # << >> => rhs2[3] = MatVec(A, rhs2[1])
              /\ pc = "odeint_func" /\ rhs2 # << >> /\ rhs2[1] = rhs_c =>
                    rhs2[3] = rhs_out)
    /\ [][Ran(9) /\ ~Ran(10) =>
             /\ expected_app' = expected_app
             /\ norms' = norms
             /\ pc = "odeint_func" /\ pc' = "odeint_func" =>
                   rhs_c' = rhs_c /\ rhs_t' = rhs_t /\ rhs_out' = rhs_out
             /\ rhs2 # << >> /\ rhs2' # << >> => rhs2' = rhs2]_vars

C18_Witness ==
    /\ pc = "odeint_func"
    /\ rhs2 # << >>
    /\ rhs2[1] = rhs_c
    /\ rhs2[2] # rhs_t
    /\ rhs2[3] = rhs_out
    /\ Len(rhs_c) = 3
    /\ rhs_c # initial_condition
    /\ rhs_out[1] # QZero
    /\ rhs_out[2] # QZero

\* alpha_n of the marginal Uniform(lower, upper) in closed form: the midpoint,
\* whatever n is
UniformAlpha(D) == QDiv(QAdd(D.lower, D.upper), QInt(2))

\* the univariate basis polynomial of degree n along an axis, Phi_{-1} = 0
Univariate(axis, n) ==
    IF n < 0 THEN PConst(QZero)
    ELSE polynomial_expansion[Position(IF axis = 1 THEN <<n, 0>> ELSE <<0, n>>)]

\* C19: along each dimension the basis polynomials satisfy
\* Phi_{n+1} = (x - alpha_n) Phi_n - beta_n Phi_{n-1}, n in 0..N-1, with
\* Phi_{-1} = 0, Phi_0 = 1 and beta_0 = E[1] = 1 (alpha_n and beta_n taken in
\* closed form); the first basis element is the constant 1 and norms[0] = 1
\* for every distribution and order; for I ~ Uniform(1, 2) the polynomials
\* are the ones the notebook prints
C19_ThreeTermRecurrence ==
    /\ Ran(3) =>
          /\ PEq(polynomial_expansion[1], PConst(QOne))
          /\ E(polynomial_expansion[1], distribution) = QOne
    /\ Ran(7) => norms[1] = QOne /\ norms[1] = UniformBeta(distribution[1], 0)
    /\ pc = "outer" =>
          \A axis \in 1..Len(distribution) :
             /\ PEq(Univariate(axis, 0), PConst(QOne))
             /\ \A n \in 0..(polynomial_order - 1) :
                   PEq(Univariate(axis, n + 1),
                       PSub(PMul(PSub(variable(axis),
                                      PConst(UniformAlpha(distribution[axis]))),
                                 Univariate(axis, n)),
                            PScale(UniformBeta(distribution[axis], n),
                                   Univariate(axis, n - 1))))
    /\ pc = "outer" /\ distribution[2] = Uniform(QInt(1), QInt(2)) =>
          /\ polynomial_order >= 1 =>
                PEq(Univariate(2, 1),
                    [da |-> 0, dI |-> 1, c |-> << <<QNorm(-3, 2, 0), QOne>> >>])
          /\ polynomial_order >= 2 =>
                PEq(Univariate(2, 2),
                    [da |-> 0, dI |-> 2,
                     c  |-> << <<QNorm(13, 6, 0), QInt(-3), QOne>> >>])

C19_Witness ==
    /\ pc = "outer"
    /\ polynomial_order = 3
    /\ distribution[1] = Uniform(QInt(0), QInt(2))
    /\ PEq(Univariate(2, 2),
           [da |-> 0, dI |-> 2, c |-> << <<QNorm(13, 6, 0), QInt(-3), QOne>> >>])
    /\ PEq(Univariate(1, 1),
           [da |-> 1, dI |-> 0, c |-> << <<QInt(-1)>>, <<QOne>> >>])

=============================================================================
